---- MODULE Spec2Model ----
(***************************************************************************)
(* Alert routes of the disaster-management backend (routes/alerts.js):     *)
(* the alert store, the public read paths (list, get-by-id, near           *)
(* location), the role-gated mutations (create, update, delete) and the    *)
(* role-gated statistics.                                                  *)
(*                                                                         *)
(* Geometry.  Alert points and query points lie on one meridian of the     *)
(* sphere of radius 6371 km and are named by their arc coordinate in km,   *)
(* so the central angle between two points is |p - q| / 6371 radians.      *)
(* Angles are kept as exact fractions <<numerator, denominator>>.          *)
(***************************************************************************)
EXTENDS Integers, Sequences, FiniteSets, TLC

\* ------------------------------------------------------------ bounds
MaxAlerts == 2      \* ids the store ever assigns
MaxTime   == 1      \* last instant of the clock
MaxGets   == 2      \* Get-by-id calls started per alert
NumProcs  == 2      \* request handlers in flight at once

\* ------------------------------------------------- program constants
EarthRadiusKm == 6371
DefaultRadius == 50
DefaultLimit  == 20
DefaultPage   == 1
NearLimit     == 50

Ids       == 1..MaxAlerts
Procs     == 1..NumProcs

\* identities handed over by the identity collaborator
Anonymous  == "anonymous"
Identities == {Anonymous, "user1", "admin1"}
Role(identity) ==
    IF identity = "admin1" THEN "admin"
    ELSE IF identity = "user1" THEN "user" ELSE "none"

Types      == {"landslide", "flood", "severe_weather", "evacuation", "other"}
Severities == {"low", "medium", "high", "critical"}
Statuses   == {"draft", "active", "resolved", "expired"}

VARIABLES alerts, nextId, now, req, resp, served

vars == <<alerts, nextId, now, req, resp, served>>

Idle == [op |-> "idle"]
NoResp == [op |-> "none"]

Min(a, b) == IF a < b THEN a ELSE b
Abs(a) == IF a < 0 THEN 0 - a ELSE a

\* ------------------------------------------------ strings and ordering
\* Letters of the severity names as alphabet positions; the store compares
\* string fields code unit by code unit.
Chars(s) ==
    CASE s = "low"      -> <<12, 15, 23>>
      [] s = "medium"   -> <<13, 5, 4, 9, 21, 13>>
      [] s = "high"     -> <<8, 9, 7, 8>>
      [] s = "critical" -> <<3, 18, 9, 20, 9, 3, 1, 12>>
      [] OTHER          -> <<>>

RECURSIVE SeqCmp(_, _)
SeqCmp(a, b) ==
    IF a = <<>> /\ b = <<>> THEN 0
    ELSE IF a = <<>> THEN 0 - 1
    ELSE IF b = <<>> THEN 1
    ELSE IF Head(a) < Head(b) THEN 0 - 1
    ELSE IF Head(a) > Head(b) THEN 1
    ELSE SeqCmp(Tail(a), Tail(b))

NumCmp(a, b) == IF a < b THEN 0 - 1 ELSE IF a > b THEN 1 ELSE 0

\* the store's comparison of one field of two documents
FieldCmp(a, b, field) ==
    IF field = "severity" THEN SeqCmp(Chars(a.severity), Chars(b.severity))
    ELSE NumCmp(a.createdAt, b.createdAt)

\* a sort specification is a sequence of <<field, direction>>, direction 1 or -1
RECURSIVE SortCmp(_, _, _)
SortCmp(a, b, spec) ==
    IF spec = <<>> THEN 0
    ELSE LET c == FieldCmp(a, b, Head(spec)[1]) * Head(spec)[2]
         IN  IF c # 0 THEN c ELSE SortCmp(a, b, Tail(spec))

\* Mongoose reading of a sort string: a leading "-" means descending
ParseSort(sort) ==
    CASE sort = "-createdAt" -> << <<"createdAt", 0 - 1>> >>
      [] sort = "createdAt"  -> << <<"createdAt", 1>> >>
      [] sort = "-severity"  -> << <<"severity", 0 - 1>> >>
      [] sort = "severity"   -> << <<"severity", 1>> >>
      [] OTHER               -> <<>>

\* every arrangement of the documents D the store may return for a sort:
\* documents that compare equal on the sort keys come in any order
Orderings(D, spec) ==
    {s \in [1..Cardinality(D) -> D] :
        /\ \A i, j \in 1..Cardinality(D) : i # j => s[i] # s[j]
        /\ \A i, j \in 1..Cardinality(D) : i < j => SortCmp(s[i], s[j], spec) <= 0}

\* skip(n) then limit(m) of a result sequence
SkipLimit(s, skip, limit) ==
    SubSeq(s, skip + 1, Min(Len(s), skip + limit))

CeilDiv(a, b) == (a + b - 1) \div b

\* --------------------------------------------------------- geometry
\* fractions <<n, d>> with d > 0
FracLeq(x, y) == x[1] * y[2] <= y[1] * x[2]

\* central angle (radians) between two points of the meridian
CentralAngle(p, c) == <<Abs(p - c), EarthRadiusKm>>

\* variant: the equatorial radius in place of the mean radius
SearchRadius_Equatorial(radius) == <<radius, 6378>>

\* parseFloat(radius) / 6371: kilometres to radians
SearchRadius(radius) == <<radius, EarthRadiusKm>>

\* $geoWithin $centerSphere: the closed spherical cap around the centre
GeoWithin(a, geo) == FracLeq(CentralAngle(a.location.coordinates, geo.center), geo.radius)

\* ------------------------------------------------- request parameters
\* An optional request parameter is <<>> (absent) or <<v>> (given).
None == <<>>
Given(x) == Len(x) > 0
Val(x) == x[1]
\* JavaScript truthiness of a query-string value: the empty string is falsy
Truthy(x) == Given(x) /\ Val(x) # ""
\* destructuring default: applies only when the parameter is absent
OrDefault(x, d) == IF Given(x) THEN Val(x) ELSE d

\* ---------------------------------------------------- filters (reads)
\* A filter is the set of keys the handler put in it and their values.
FilterOf(keys, q, status, t) ==
    [keys |-> keys, isPublic |-> TRUE,
     type |-> OrDefault(q.type, ""), severity |-> OrDefault(q.severity, ""),
     status |-> status, validFrom |-> t, validUntil |-> t,
     location |-> [center |-> 0, radius |-> <<0, 1>>]]

\* variant: the window test takes the place of the stored-status test
ListFilter_WindowOnly(q, t) ==
    LET status == OrDefault(q.status, "active")
    IN  FilterOf({"isPublic"}
                 \cup (IF Truthy(q.type) THEN {"type"} ELSE {})
                 \cup (IF Truthy(q.severity) THEN {"severity"} ELSE {})
                 \cup (IF status # "" /\ status # "active" THEN {"status"} ELSE {})
                 \cup (IF status = "active" THEN {"validFrom", "validUntil"} ELSE {}),
                 q, status, t)

\* variant: the filter starts empty instead of {isPublic: true}
ListFilter_NoPublic(q, t) ==
    LET status == OrDefault(q.status, "active")
    IN  FilterOf((IF Truthy(q.type) THEN {"type"} ELSE {})
                 \cup (IF Truthy(q.severity) THEN {"severity"} ELSE {})
                 \cup (IF status # "" THEN {"status"} ELSE {})
                 \cup (IF status = "active" THEN {"validFrom", "validUntil"} ELSE {}),
                 q, status, t)

ListFilter(q, t) ==
    LET status == OrDefault(q.status, "active")
        keys == {"isPublic"}
                \cup (IF Truthy(q.type) THEN {"type"} ELSE {})
                \cup (IF Truthy(q.severity) THEN {"severity"} ELSE {})
                \cup (IF status # "" THEN {"status"} ELSE {})
                \cup (IF status = "active" THEN {"validFrom", "validUntil"} ELSE {})
    IN  FilterOf(keys, q, status, t)

\* the $geoWithin condition List adds to the query (not to the filter)
ListGeoGiven(q) == Given(q.lat) /\ Given(q.lng)
ListGeo(q) ==
    [center |-> OrDefault(q.lat, 0),
     radius |-> SearchRadius(OrDefault(q.radius, DefaultRadius))]

\* query.where({location: ...}): the query's conditions are the filter's plus location
ListConditions(q, t) ==
    IF ListGeoGiven(q)
    THEN [ListFilter(q, t) EXCEPT !.keys = @ \cup {"location"}, !.location = ListGeo(q)]
    ELSE ListFilter(q, t)

\* the conditions the handler passes to countDocuments
ListCountConditions(q, t) == ListFilter(q, t)

NearFilter(q, t1, t2) ==
    [keys |-> {"isPublic", "status", "location", "validFrom", "validUntil"}
              \cup (IF Truthy(q.type) THEN {"type"} ELSE {})
              \cup (IF Truthy(q.severity) THEN {"severity"} ELSE {}),
     isPublic |-> TRUE, status |-> "active",
     type |-> OrDefault(q.type, ""), severity |-> OrDefault(q.severity, ""),
     validFrom |-> t1, validUntil |-> t2,
     location |-> [center |-> q.lat,
                   radius |-> SearchRadius(OrDefault(q.radius, DefaultRadius))]]

NearSort == << <<"severity", 0 - 1>>, <<"createdAt", 0 - 1>> >>

\* the store's evaluation of a conjunctive filter on one document
Matches(a, f) ==
    /\ "isPublic" \in f.keys => a.isPublic = f.isPublic
    /\ "type" \in f.keys => a.type = f.type
    /\ "severity" \in f.keys => a.severity = f.severity
    /\ "status" \in f.keys => a.status = f.status
    /\ "validFrom" \in f.keys => a.validFrom <= f.validFrom
    /\ "validUntil" \in f.keys => a.validUntil >= f.validUntil
    /\ "location" \in f.keys => GeoWithin(a, f.location)

Docs(store) == {store[i] : i \in DOMAIN store}
Find(store, f) == {a \in Docs(store) : Matches(a, f)}
CountDocuments(store, f) == Cardinality(Find(store, f))

\* ------------------------------------------------------- middleware
\* protect + authorize('admin'): only an identity with the elevated role passes
Authorize(identity) == Role(identity) = "admin"

\* the middleware chain in front of each mutating route
CreateGuard(identity) == Authorize(identity)
\* variant: the route is registered like the public ones, with no role check
UpdateGuard_Optional(identity) == TRUE
UpdateGuard(identity) == Authorize(identity)
DeleteGuard(identity) == Authorize(identity)

\* validateAlertCreation: the coordinates are a well-formed point
\* (a latitude within a quarter circumference of the equator)
ValidCreation(body) ==
    /\ body.location.coordinates >= 0 - 10007
    /\ body.location.coordinates <= 10007

\* schema validators of the Alert model (enumerations), run on create and,
\* with runValidators, on the fields an update sets
SchemaValid(data) ==
    /\ "type" \in DOMAIN data => data.type \in Types
    /\ "severity" \in DOMAIN data => data.severity \in Severities
    /\ "status" \in DOMAIN data => data.status \in Statuses

\* ------------------------------------------------------- mutations
\* a || b on an optional number: absent and 0 are falsy
OrElse(x, d) == IF Given(x) /\ Val(x) # 0 THEN Val(x) ELSE d

\* POST /: alertData, then the document the store creates from it
NewAlert(id, identity, body, t) ==
    [id |-> id,
     type |-> body.type, severity |-> body.severity, status |-> body.status,
     location |-> [coordinates |-> body.location.coordinates,
                   radius |-> OrElse(body.location.radius, DefaultRadius)],
     validFrom |-> body.validFrom, validUntil |-> body.validUntil,
     isPublic |-> body.isPublic,
     createdBy |-> identity, updatedBy |-> "",
     statistics |-> [views |-> 0],
     createdAt |-> t, updatedAt |-> t]

\* variant: every update rewrites location, with the default radius
UpdateData_ResetsRadius(body, identity, alert) ==
    [f \in DOMAIN body \cup {"updatedBy", "location"} |->
        IF f = "updatedBy" THEN identity
        ELSE IF f = "location"
        THEN [coordinates |-> alert.location.coordinates, radius |-> DefaultRadius]
        ELSE body[f]]

\* PUT /:id: updateData built from the request body and the document read
UpdateData(body, identity, alert) ==
    LET base == [f \in DOMAIN body \cup {"updatedBy"} |->
                    IF f = "updatedBy" THEN identity ELSE body[f]]
    IN  IF "location" \in DOMAIN body
        THEN [base EXCEPT !.location =
                 [coordinates |-> body.location.coordinates,
                  radius |-> OrElse(body.location.radius, alert.location.radius)]]
        ELSE base

\* findByIdAndUpdate(id, updateData): $set of every key of updateData,
\* and the store's updatedAt timestamp
ApplyUpdate(alert, data, t) ==
    [f \in DOMAIN alert |->
        IF f = "updatedAt" THEN t
        ELSE IF f \in DOMAIN data THEN data[f]
        ELSE alert[f]]

\* variant: the update is an upsert, a missing document is inserted
FindByIdAndUpdate_Upsert(store, id, data, t) ==
    IF id \in DOMAIN store
    THEN [store EXCEPT ![id] = ApplyUpdate(@, data, t)]
    ELSE (id :> ApplyUpdate(NewAlert(id, "", [type |-> "other", severity |-> "low",
                                               status |-> "draft",
                                               location |-> [coordinates |-> 0,
                                                             radius |-> None],
                                               validFrom |-> t, validUntil |-> t,
                                               isPublic |-> FALSE], t),
                            data, t)) @@ store

\* Alert.findByIdAndUpdate(id, updateData, {new: true, runValidators: true}):
\* no upsert, a missing document is left missing (and null is returned)
FindByIdAndUpdate(store, id, data, t) ==
    IF id \in DOMAIN store
    THEN [store EXCEPT ![id] = ApplyUpdate(@, data, t)]
    ELSE store

\* variant: removal marks the document instead of taking it out
FindByIdAndDelete_Soft(store, id) ==
    IF id \in DOMAIN store THEN [store EXCEPT ![id].status = "expired"] ELSE store

\* Alert.findByIdAndDelete(id): the collection without the document
FindByIdAndDelete(store, id) == [i \in DOMAIN store \ {id} |-> store[i]]

\* alert.statistics.views += 1; alert.save(): writes the modified path only
SaveViews(alert, views, t) ==
    [alert EXCEPT !.statistics.views = views, !.updatedAt = t]

\* ------------------------------------------------------------ state
Init ==
    /\ alerts = <<>>
    /\ nextId = 1
    /\ now = 0
    /\ req = [p \in Procs |-> Idle]
    /\ resp = NoResp
    /\ served = [i \in Ids |-> 0]

\* the clock source
Tick ==
    /\ now < MaxTime
    /\ now' = now + 1
    /\ UNCHANGED <<alerts, nextId, req, resp, served>>

\* res.json / res.status(..).json: resp is the response a handler has written;
\* the transport sends it and the slot is free again
Deliver ==
    /\ resp # NoResp
    /\ resp' = NoResp
    /\ UNCHANGED <<alerts, nextId, now, req, served>>

\* ------------------------------------------------- POST / (create)
CreateAlert(identity, body) ==
    /\ resp = NoResp
    /\ UNCHANGED <<now, req, served>>
    /\ IF ~CreateGuard(identity)
       THEN /\ resp' = [op |-> "create", by |-> identity, status |-> "Forbidden", alert |-> None]
            /\ UNCHANGED <<alerts, nextId>>
       ELSE IF ~ValidCreation(body)
       THEN /\ resp' = [op |-> "create", by |-> identity, status |-> "ValidationError", alert |-> None]
            /\ UNCHANGED <<alerts, nextId>>
       ELSE IF ~SchemaValid(body)
       THEN /\ resp' = [op |-> "create", by |-> identity, status |-> "InternalError", alert |-> None]
            /\ UNCHANGED <<alerts, nextId>>
       ELSE /\ nextId <= MaxAlerts
            /\ alerts' = (nextId :> NewAlert(nextId, identity, body, now)) @@ alerts
            /\ nextId' = nextId + 1
            /\ resp' = [op |-> "create", by |-> identity, status |-> "ok",
                        alert |-> <<nextId>>]

\* ---------------------------------------------- GET /:id (get-by-id)
\* handlers in flight on one alert
InFlight(op, id) == Cardinality({p \in Procs : req[p].op = op /\ req[p].id = id})

\* await Alert.findById(id); the handler keeps the document it read (of
\* which only statistics.views is used afterwards)
GetAlertFind(p, id) ==
    /\ req[p] = Idle
    /\ UNCHANGED <<alerts, nextId, now, served>>
    /\ IF id \notin DOMAIN alerts
       THEN /\ resp = NoResp
            /\ resp' = [op |-> "get", id |-> id, status |-> "NotFound", views |-> 0]
            /\ UNCHANGED req
       ELSE /\ served[id] + InFlight("get", id) < MaxGets
            /\ req' = [req EXCEPT ![p] =
                          [op |-> "get", id |-> id, views |-> alerts[id].statistics.views]]
            /\ UNCHANGED resp

\* alert.statistics.views += 1; await alert.save(); res.json
\* save() updates the stored document by id: when the document has been
\* removed meanwhile it matches nothing, inserts nothing, and the handler
\* answers through its catch block.
GetAlertSave(p) ==
    /\ req[p].op = "get"
    /\ resp = NoResp
    /\ req' = [req EXCEPT ![p] = Idle]
    /\ UNCHANGED <<nextId, now>>
    /\ LET id == req[p].id
           views == req[p].views + 1
       IN  IF id \in DOMAIN alerts
           THEN /\ alerts' = [alerts EXCEPT ![id] = SaveViews(@, views, now)]
                /\ served' = [served EXCEPT ![id] = @ + 1]
                /\ resp' = [op |-> "get", id |-> id, status |-> "ok", views |-> views]
           ELSE /\ resp' = [op |-> "get", id |-> id, status |-> "InternalError", views |-> 0]
                /\ UNCHANGED <<alerts, served>>

\* ------------------------------------------------ PUT /:id (update)
\* protect, authorize('admin'); await Alert.findById(id); build updateData
UpdateAlertFind(p, identity, id, body) ==
    /\ req[p] = Idle
    /\ UNCHANGED <<alerts, nextId, now, served>>
    /\ IF ~UpdateGuard(identity)
       THEN /\ resp = NoResp
            /\ resp' = [op |-> "update", by |-> identity, id |-> id,
                        status |-> "Forbidden", alert |-> None]
            /\ UNCHANGED req
       ELSE IF id \notin DOMAIN alerts
       THEN /\ resp = NoResp
            /\ resp' = [op |-> "update", by |-> identity, id |-> id,
                        status |-> "NotFound", alert |-> None]
            /\ UNCHANGED req
       ELSE /\ req' = [req EXCEPT ![p] =
                          [op |-> "update", by |-> identity, id |-> id, body |-> body,
                           data |-> UpdateData(body, identity, alerts[id])]]
            /\ UNCHANGED resp

\* await Alert.findByIdAndUpdate(id, updateData, {new, runValidators}); res.json
UpdateAlertWrite(p) ==
    /\ req[p].op = "update"
    /\ resp = NoResp
    /\ req' = [req EXCEPT ![p] = Idle]
    /\ UNCHANGED <<nextId, now, served>>
    /\ LET id == req[p].id
           data == req[p].data
           out == [op |-> "update", by |-> req[p].by, id |-> id, body |-> req[p].body]
       IN  IF ~SchemaValid(data)
           THEN /\ resp' = out @@ [status |-> "InternalError", alert |-> None]
                /\ UNCHANGED alerts
           ELSE /\ alerts' = FindByIdAndUpdate(alerts, id, data, now)
                /\ resp' = out @@ [status |-> "ok",
                                   alert |-> IF id \in DOMAIN alerts
                                             THEN <<id>> ELSE None]

\* --------------------------------------------- DELETE /:id (delete)
\* protect, authorize('admin'); await Alert.findById(id)
DeleteAlertFind(p, identity, id) ==
    /\ req[p] = Idle
    /\ UNCHANGED <<alerts, nextId, now, served>>
    /\ IF ~DeleteGuard(identity)
       THEN /\ resp = NoResp
            /\ resp' = [op |-> "delete", by |-> identity, id |-> id, status |-> "Forbidden"]
            /\ UNCHANGED req
       ELSE IF id \notin DOMAIN alerts
       THEN /\ resp = NoResp
            /\ resp' = [op |-> "delete", by |-> identity, id |-> id, status |-> "NotFound"]
            /\ UNCHANGED req
       ELSE /\ req' = [req EXCEPT ![p] = [op |-> "delete", by |-> identity, id |-> id]]
            /\ UNCHANGED resp

\* await Alert.findByIdAndDelete(id); res.json
DeleteAlertRemove(p) ==
    /\ req[p].op = "delete"
    /\ resp = NoResp
    /\ req' = [req EXCEPT ![p] = Idle]
    /\ UNCHANGED <<nextId, now, served>>
    /\ alerts' = FindByIdAndDelete(alerts, req[p].id)
    /\ resp' = [op |-> "delete", by |-> req[p].by, id |-> req[p].id, status |-> "ok"]

\* ------------------------------------------------------ GET / (list)
Limit(q) == OrDefault(q.limit, DefaultLimit)
Page(q) == OrDefault(q.page, DefaultPage)
SortOf(q) == ParseSort(OrDefault(q.sort, "-createdAt"))


\* limit * 1, page - 1, parseInt(page): a parameter whose text is not a
\* number evaluates to NaN, and so does arithmetic on it
IsNaN(q, name) == name \in q.nonNumeric

\* (page - 1) * limit
Skip(q) == (Page(q) - 1) * Limit(q)

\* .skip(n): the store rejects an n that is negative or not a number, and the
\* handler answers through its catch block
SkipRejected(q) == IsNaN(q, "page") \/ IsNaN(q, "limit") \/ Skip(q) < 0

\* .limit(n) on a result of len documents: 0 sets no limit, a negative n
\* limits to |n|
StoreLimit(n, len) == IF n = 0 THEN len ELSE Abs(n)

\* .sort(sort).limit(limit * 1).skip((page - 1) * limit) of one ordering
ListPage(q, ord) == SkipLimit(ord, Skip(q), StoreLimit(Limit(q), Len(ord)))

\* Math.ceil(total / limit): total / 0 is Infinity or NaN (finite is false and
\* the response carries null); a negative limit gives a quotient <= 0
Pages(total, limit) ==
    IF limit > 0 THEN CeilDiv(total, limit)
    ELSE IF limit < 0 THEN 0 - (total \div Abs(limit))
    ELSE 0

\* pagination: {current: parseInt(page), pages: Math.ceil(total / limit), total}
Pagination(q, total) ==
    [current |-> Page(q), pages |-> Pages(total, Limit(q)),
     finite |-> Limit(q) # 0, total |-> total]

\* The handler's two store reads (query.exec, countDocuments) are taken on
\* the same store state.
ListAlerts(q) ==
    /\ resp = NoResp
    /\ UNCHANGED <<alerts, nextId, now, req, served>>
    /\ IF SkipRejected(q)
       THEN resp' = [op |-> "list", status |-> "InternalError", q |-> q, at |-> now]
       ELSE \E ord \in Orderings(Find(alerts, ListConditions(q, now)), SortOf(q)) :
               resp' = [op |-> "list", status |-> "ok", q |-> q, at |-> now,
                        alerts |-> ListPage(q, ord),
                        pagination |->
                            Pagination(q, CountDocuments(alerts, ListCountConditions(q, now)))]

\* A client reading every page of one filter, 1..pages, with no write and
\* no clock step in between: the concatenation of the pages it receives.
RECURSIVE Concat(_, _, _)
Concat(q, ords, n) ==
    IF n = 0 THEN <<>>
    ELSE Concat(q, ords, n - 1) \o ListPage([q EXCEPT !.page = <<n>>], ords[n])

PageThrough(q) ==
    /\ resp = NoResp
    /\ UNCHANGED <<alerts, nextId, now, req, served>>
    /\ LET meta == Pagination(q, CountDocuments(alerts, ListCountConditions(q, now)))
           all == Orderings(Find(alerts, ListConditions(q, now)), SortOf(q))
       IN  \E ords \in [1..meta.pages -> all] :
              resp' = [op |-> "pages", status |-> "ok", q |-> q, at |-> now,
                       alerts |-> Concat(q, ords, meta.pages),
                       pagination |-> meta]

\* --------------------------------- GET /location/:lat/:lng (near)
\* The filter reads the clock twice (validFrom: new Date(), validUntil:
\* new Date()); the clock may step between the two reads.
ListAlertsNearLocation(q) ==
    /\ resp = NoResp
    /\ UNCHANGED <<alerts, nextId, req, served>>
    /\ \E t2 \in {now, Min(now + 1, MaxTime)} :
          /\ now' = t2
          /\ \E ord \in Orderings(Find(alerts, NearFilter(q, now, t2)), NearSort) :
                resp' = [op |-> "near", status |-> "ok", q |-> q, at |-> <<now, t2>>,
                         alerts |-> SkipLimit(ord, 0, NearLimit)]

\* ------------------------------ GET /stats/overview (statistics)
StatsGuard(identity) == Authorize(identity)

\* 7 * 24 * 60 * 60 * 1000: the width of the recent window, in clock units
RecentWindow == 7 * 24 * 60 * 60 * 1000

\* {$count: 'count'}: one count document, none when the stage has no input
Count(D) == IF D = {} THEN <<>> ELSE <<Cardinality(D)>>

\* variant: the activeAlerts facet matches on the validity window alone
ActiveFacet_WindowOnly(store, t) ==
    {a \in Docs(store) : a.validFrom <= t /\ a.validUntil >= t}

\* activeAlerts: $match {status: 'active', validFrom <= now, validUntil >= now}
ActiveFacet(store, t) ==
    {a \in Docs(store) : a.status = "active" /\ a.validFrom <= t /\ a.validUntil >= t}

\* recentAlerts: $match {createdAt >= new Date(Date.now() - 7 days)}
RecentFacet(store, t) == {a \in Docs(store) : a.createdAt >= t - RecentWindow}

\* $group {_id: '$field', count: {$sum: 1}}
GroupBy(store, field) ==
    [v \in {a[field] : a \in Docs(store)} |->
        Cardinality({a \in Docs(store) : a[field] = v})]

\* const now = new Date() is read first; the recentAlerts stage reads the
\* clock again (Date.now()) while the pipeline is built, and the clock may
\* step between the two reads.  The aggregation itself is one store read.
GetAlertStatistics(identity) ==
    /\ resp = NoResp
    /\ UNCHANGED <<alerts, nextId, req, served>>
    /\ IF ~StatsGuard(identity)
       THEN /\ resp' = [op |-> "stats", by |-> identity, status |-> "Forbidden"]
            /\ UNCHANGED now
       ELSE \E t2 \in {now, Min(now + 1, MaxTime)} :
               /\ now' = t2
               /\ resp' = [op |-> "stats", by |-> identity, status |-> "ok",
                           at |-> <<now, t2>>,
                           stats |-> [totalAlerts |-> Count(Docs(alerts)),
                                      activeAlerts |-> Count(ActiveFacet(alerts, now)),
                                      alertsByType |-> GroupBy(alerts, "type"),
                                      alertsBySeverity |-> GroupBy(alerts, "severity"),
                                      recentAlerts |-> Count(RecentFacet(alerts, t2))]]

\* ----------------------------------------------------------- inputs
Body(type, severity, status, km, radius, from, until, public) ==
    [type |-> type, severity |-> severity, status |-> status,
     location |-> [coordinates |-> km, radius |-> radius],
     validFrom |-> from, validUntil |-> until, isPublic |-> public]

\* request bodies of POST / under Spec
CreateBodies ==
    { Body("landslide", "low", "draft", 50, <<30>>, 0, 1, FALSE),
      Body("flood", "high", "active", 20000, None, 0, 1, TRUE),
      Body("tsunami", "high", "active", 0, None, 0, 1, TRUE) }

\* request bodies of PUT /:id under Spec
UpdateBodies ==
    { [severity |-> "high"],
      [severity |-> "extreme"],
      [severity |-> "critical", status |-> "active"] }

\* request bodies under SpecGet and SpecViews
ViewBodies == { Body("flood", "critical", "active", 0, None, 0, 1, TRUE) }
ViewUpdateBodies == { [statistics |-> [views |-> 0]], [severity |-> "high"] }

\* request bodies of POST / under SpecQuery
QueryBodies ==
    { Body("flood", "critical", "active", 0, None, 0, 0, TRUE),
      Body("landslide", "medium", "active", 50, None, 0, 1, TRUE),
      Body("flood", "high", "draft", 10, None, 0, 1, TRUE),
      Body("flood", "low", "active", 51, None, 1, 1, TRUE),
      Body("landslide", "critical", "active", 0, None, 0, 1, FALSE) }

Query(type, severity, status, lat, lng, radius, limit, page, sort) ==
    [type |-> type, severity |-> severity, status |-> status, lat |-> lat, lng |-> lng,
     radius |-> radius, limit |-> limit, page |-> page, sort |-> sort,
     nonNumeric |-> {}]

\* query strings of GET /: every combination of the filter parameters with
\* default paging, and every combination of the paging parameters
FilterQueries ==
    { Query(ty, sv, st, g[1], g[2], g[3], None, None, None) :
        ty \in {None, <<"flood">>}, sv \in {None, <<"critical">>},
        st \in {None, <<"active">>, <<"draft">>, <<"">>},
        g \in { <<None, None, None>>, <<(<<0>>), None, None>>,
                <<(<<0>>), (<<0>>), None>>, <<(<<0>>), (<<0>>), (<<10>>)>> } }

PagingQueries ==
    { Query(None, None, None, g, g, None, lm, pg, so) :
        g \in {None, <<0>>},
        lm \in {None, <<1>>, <<2>>}, pg \in {None, <<2>>},
        so \in {None, <<"-severity">>} }

ListQueries == FilterQueries \cup PagingQueries

\* query strings of GET / with a limit or a page that is zero, negative or
\* not a number (page=abc: the parameter is given, its text has no numeric
\* value), next to the defaults
OddPagingQueries ==
    { [Query(None, None, None, None, None, None, lm, pg[1], None)
          EXCEPT !.nonNumeric = pg[2]] :
        lm \in {None, <<0>>, <<0 - 5>>, <<0 - 1>>},
        pg \in { <<None, {}>>, <<(<<0>>), {}>>, <<(<<1>>), {}>>,
                 <<(<<0>>), {"page"}>> } }

\* request bodies under SpecMoves: one alert body, and two patches that move
\* the alert, the first without a radius, the second with one
MoveBodies == { Body("flood", "low", "draft", 50, <<30>>, 0, 1, TRUE) }
MovePatches ==
    { [type |-> "evacuation", location |-> [coordinates |-> 10, radius |-> None]],
      [status |-> "resolved", location |-> [coordinates |-> 20, radius |-> <<5>>]] }

\* patches under SpecRadius: a location without a radius, with a radius, and
\* with the radius 0
RadiusPatches ==
    { [location |-> [coordinates |-> 10, radius |-> None]],
      [location |-> [coordinates |-> 20, radius |-> <<5>>]],
      [location |-> [coordinates |-> 40, radius |-> <<0>>]] }

\* request bodies under SpecWindow: alerts with a well-ordered window, and
\* patches that set one end of the window
WindowBodies ==
    { Body("flood", "low", "active", 0, None, 0, 1, TRUE),
      Body("flood", "high", "active", 0, None, 1, 1, TRUE) }
WindowPatches == { [validFrom |-> 1], [validUntil |-> 0], [validUntil |-> 1] }

\* patches under SpecRace
RacePatches == { [severity |-> "high"] }

\* the read calls made around deletions: the default list and one point
RemovalListQueries == { Query(None, None, None, None, None, None, None, None, None) }
RemovalNearQueries ==
    { [lat |-> 0, lng |-> 0, radius |-> None, type |-> None, severity |-> None] }

\* the filters a client pages through
PageQueries == {q \in PagingQueries : Given(q.limit) /\ ~Given(q.page)}

\* path and query parameters of GET /location/:lat/:lng
NearQueries ==
    { [lat |-> 0, lng |-> 0, radius |-> r, type |-> ty, severity |-> sv] :
        r \in {None, <<10>>}, ty \in {None, <<"flood">>}, sv \in {None, <<"critical">>} }

\* ----------------------------------------------------- specifications
\* the role-gated mutations, one handler at a time
Single == {1}

Next ==
    \/ Tick
    \/ Deliver
    \/ \E identity \in Identities, body \in CreateBodies : CreateAlert(identity, body)
    \/ \E p \in Single, identity \in Identities, id \in Ids, body \in UpdateBodies :
          UpdateAlertFind(p, identity, id, body)
    \/ \E p \in Single : UpdateAlertWrite(p)
    \/ \E p \in Single, identity \in Identities, id \in Ids : DeleteAlertFind(p, identity, id)
    \/ \E p \in Single : DeleteAlertRemove(p)

Spec == Init /\ [][Next]_vars

\* concurrent single-alert reads
NextGet ==
    \/ Tick
    \/ Deliver
    \/ \E body \in ViewBodies : CreateAlert("admin1", body)
    \/ \E p \in Procs, id \in Ids : GetAlertFind(p, id)
    \/ \E p \in Procs : GetAlertSave(p)

SpecGet == Init /\ [][NextGet]_vars

\* single-alert reads and updates, one handler at a time
NextViews ==
    \/ Tick
    \/ Deliver
    \/ \E body \in ViewBodies : CreateAlert("admin1", body)
    \/ \E p \in Single, id \in Ids : GetAlertFind(p, id)
    \/ \E p \in Single : GetAlertSave(p)
    \/ \E p \in Single, id \in Ids, body \in ViewUpdateBodies :
          UpdateAlertFind(p, "admin1", id, body)
    \/ \E p \in Single : UpdateAlertWrite(p)

SpecViews == Init /\ [][NextViews]_vars

\* the public read paths over the stores that creation builds
NextQuery ==
    \/ Tick
    \/ Deliver
    \/ \E body \in QueryBodies : CreateAlert("admin1", body)
    \/ \E q \in ListQueries : ListAlerts(q)
    \/ \E q \in PageQueries : PageThrough(q)
    \/ \E q \in NearQueries : ListAlertsNearLocation(q)

SpecQuery == Init /\ [][NextQuery]_vars

\* concurrent updates of one alert
NextMoves ==
    \/ Deliver
    \/ \E body \in MoveBodies : CreateAlert("admin1", body)
    \/ \E p \in Procs, id \in Ids, body \in MovePatches :
          UpdateAlertFind(p, "admin1", id, body)
    \/ \E p \in Procs : UpdateAlertWrite(p)

SpecMoves == Init /\ [][NextMoves]_vars

\* location updates, one handler at a time
NextRadius ==
    \/ Deliver
    \/ \E body \in MoveBodies : CreateAlert("admin1", body)
    \/ \E p \in Single, id \in Ids, body \in RadiusPatches :
          UpdateAlertFind(p, "admin1", id, body)
    \/ \E p \in Single : UpdateAlertWrite(p)

SpecRadius == Init /\ [][NextRadius]_vars

\* updates of the validity window, one handler at a time
NextWindow ==
    \/ Deliver
    \/ \E body \in WindowBodies : CreateAlert("admin1", body)
    \/ \E p \in Single, id \in Ids, body \in WindowPatches :
          UpdateAlertFind(p, "admin1", id, body)
    \/ \E p \in Single : UpdateAlertWrite(p)

SpecWindow == Init /\ [][NextWindow]_vars

\* one get-by-id or update handler in flight together with delete handlers
NextRace ==
    \/ Deliver
    \/ \E body \in ViewBodies : CreateAlert("admin1", body)
    \/ \E p \in Single, id \in Ids : GetAlertFind(p, id)
    \/ \E p \in Single : GetAlertSave(p)
    \/ \E p \in Single, id \in Ids, body \in RacePatches :
          UpdateAlertFind(p, "admin1", id, body)
    \/ \E p \in Single : UpdateAlertWrite(p)
    \/ \E p \in Procs, id \in Ids : DeleteAlertFind(p, "admin1", id)
    \/ \E p \in Procs : DeleteAlertRemove(p)

SpecRace == Init /\ [][NextRace]_vars

\* deletions among the read paths, one handler at a time
NextRemoval ==
    \/ Deliver
    \/ \E body \in ViewBodies : CreateAlert("admin1", body)
    \/ \E p \in Single, id \in Ids : GetAlertFind(p, id)
    \/ \E p \in Single : GetAlertSave(p)
    \/ \E p \in Single, id \in Ids : DeleteAlertFind(p, "admin1", id)
    \/ \E p \in Single : DeleteAlertRemove(p)
    \/ \E q \in RemovalListQueries : ListAlerts(q)
    \/ \E q \in RemovalNearQueries : ListAlertsNearLocation(q)
    \/ GetAlertStatistics("admin1")

SpecRemoval == Init /\ [][NextRemoval]_vars

\* the list route called with odd paging parameters
NextPaging ==
    \/ Tick
    \/ Deliver
    \/ \E body \in ViewBodies : CreateAlert("admin1", body)
    \/ \E q \in OddPagingQueries : ListAlerts(q)

SpecPaging == Init /\ [][NextPaging]_vars

\* the statistics route over the stores that creation builds
NextStats ==
    \/ Tick
    \/ Deliver
    \/ \E body \in QueryBodies : CreateAlert("admin1", body)
    \/ \E identity \in Identities : GetAlertStatistics(identity)

SpecStats == Init /\ [][NextStats]_vars

\* ------------------------------------------------------- properties
Range(s) == {s[i] : i \in 1..Len(s)}
InWindow(a, t) == a.validFrom <= t /\ t <= a.validUntil
DefaultPaging(q) == ~Given(q.limit) /\ ~Given(q.page)
MutationOps == {"create", "update", "delete"}

\* C1: N Get-by-id calls on one alert, interleaved in any way, leave
\* statistics.views exactly N higher: once none is in flight, the counter
\* (0 at creation) equals the number of calls served.
C1_NoLostViews ==
    \A id \in DOMAIN alerts :
        InFlight("get", id) = 0 => alerts[id].statistics.views = served[id]

C3_OnlyPublicListed ==
    resp.op \in {"list", "pages", "near"} => \A a \in Range(resp.alerts) : a.isPublic

\* a List call answered with results while the store holds a non-public alert
\* that meets every other condition of the query
C3_Witness ==
    /\ resp.op = "list"
    /\ Len(resp.alerts) > 0
    /\ \E a \in Docs(alerts) :
          /\ ~a.isPublic
          /\ Matches(a, [ListConditions(resp.q, resp.at) EXCEPT !.keys = @ \ {"isPublic"}])

\* C4: Create, Update and Delete by a caller without the elevated role answer
\* Forbidden (whether or not the id exists, whatever the body), start no
\* handler work and leave the store unchanged.
C4_ForbiddenBeforeStore ==
    [][/\ (resp'.op \in MutationOps /\ resp' # resp /\ Role(resp'.by) # "admin")
          => (resp'.status = "Forbidden" /\ alerts' = alerts /\ nextId' = nextId /\ req' = req)
       /\ \A p \in Procs :
             req'[p].op \in {"update", "delete"} => Role(req'[p].by) = "admin"]_vars

\* an Update by a non-admin on an id that is in the store, answered Forbidden
C4_Witness ==
    /\ resp.op = "update"
    /\ resp.by = "user1"
    /\ resp.id \in DOMAIN alerts
    /\ resp.status = "Forbidden"

\* C5: the total a List call reports is the number of alerts that satisfy the
\* whole filter of the query (type, severity, status/window, isPublic and the
\* spatial restriction) before pagination, and pages = ceil(total / limit).
C5_TotalCountsWholeFilter ==
    resp.op = "list" =>
       /\ resp.pagination.total =
             Cardinality(Find(alerts, ListConditions(resp.q, resp.at)))
       /\ resp.pagination.pages = CeilDiv(resp.pagination.total, Limit(resp.q))

\* C6: with no write during paging, pages 1..pages of one filter, concatenated,
\* hold every matching alert exactly once: total records, no duplicate, no gap.
C6_PagesPartitionMatches ==
    resp.op = "pages" =>
       /\ Len(resp.alerts) = resp.pagination.total
       /\ \A i, j \in 1..Len(resp.alerts) : i # j => resp.alerts[i] # resp.alerts[j]
       /\ Range(resp.alerts) = Find(alerts, ListConditions(resp.q, resp.at))

\* C7: a successful Update whose patch holds only severity sets severity and
\* updatedBy (and the store's updatedAt) and leaves every other field of the
\* alert, and every other alert, as it was.
C7_SeverityPatchFrame ==
    [][\A p \in Procs :
          (/\ req[p].op = "update" /\ req'[p] = Idle
           /\ DOMAIN req[p].body = {"severity"}
           /\ req[p].id \in DOMAIN alerts
           /\ resp'.status = "ok")
          => /\ DOMAIN alerts' = DOMAIN alerts
             /\ \A i \in DOMAIN alerts \ {req[p].id} : alerts'[i] = alerts[i]
             /\ alerts'[req[p].id].severity = req[p].body.severity
             /\ alerts'[req[p].id].updatedBy = req[p].by
             /\ \A f \in DOMAIN alerts[req[p].id] \ {"severity", "updatedBy", "updatedAt"} :
                   alerts'[req[p].id][f] = alerts[req[p].id][f]]_vars

\* a severity-only Update answered with success after the clock has moved on:
\* the stored alert has the new severity, the updater and a later updatedAt
C7_Witness ==
    /\ resp.op = "update" /\ resp.status = "ok" /\ Given(resp.alert)
    /\ DOMAIN resp.body = {"severity"}
    /\ resp.id \in DOMAIN alerts
    /\ alerts[resp.id].severity = "high"
    /\ alerts[resp.id].updatedBy = "admin1"
    /\ alerts[resp.id].location.radius = 30
    /\ alerts[resp.id].updatedAt > alerts[resp.id].createdAt

\* C8: statistics.views of every alert never decreases; it changes only in
\* the step that completes a successful Get-by-id of that alert, and every
\* such step raises it by exactly 1.
C8_ViewsMonotone ==
    [][\A id \in DOMAIN alerts \cap DOMAIN alerts' :
          LET v == alerts[id].statistics.views
              w == alerts'[id].statistics.views
              got == \E p \in Procs :
                        /\ req[p].op = "get" /\ req[p].id = id
                        /\ req'[p] = Idle /\ resp'.status = "ok"
          IN  /\ w >= v
              /\ w # v => got
              /\ got => w = v + 1]_vars

\* defined order of the severities: low < medium < high < critical
SeverityRank(s) ==
    CASE s = "low" -> 1 [] s = "medium" -> 2 [] s = "high" -> 3 [] s = "critical" -> 4

\* C9: Get-by-location returns at most 50 alerts, by severity descending in
\* the order low < medium < high < critical, equal severities by creation
\* time descending.
C9_NearSeverityOrder ==
    resp.op = "near" =>
       /\ Len(resp.alerts) <= 50
       /\ \A i, j \in 1..Len(resp.alerts) :
             i < j =>
                \/ SeverityRank(resp.alerts[i].severity) > SeverityRank(resp.alerts[j].severity)
                \/ /\ resp.alerts[i].severity = resp.alerts[j].severity
                   /\ resp.alerts[i].createdAt >= resp.alerts[j].createdAt

\* great-circle distance in km between an alert and a query point
DistanceKm(a, lat) == Abs(a.location.coordinates - lat)

\* C10: in List with lat and lng (default paging) and in Get-by-location, an
\* alert that passes the other filters is returned iff its great-circle
\* distance d to the query point is at most the radius r in km (default 50);
\* d = r is included.
C10_WithinRadiusIff ==
    /\ (resp.op = "list" /\ ListGeoGiven(resp.q) /\ DefaultPaging(resp.q))
       => \A a \in Docs(alerts) :
             Matches(a, ListFilter(resp.q, resp.at)) =>
                (a \in Range(resp.alerts)
                 <=> DistanceKm(a, Val(resp.q.lat)) <= OrDefault(resp.q.radius, 50))
    /\ resp.op = "near"
       => \A a \in Docs(alerts) :
             Matches(a, [NearFilter(resp.q, resp.at[1], resp.at[2])
                            EXCEPT !.keys = @ \ {"location"}]) =>
                (a \in Range(resp.alerts)
                 <=> DistanceKm(a, resp.q.lat) <= OrDefault(resp.q.radius, 50))

\* a Get-by-location answer that holds an alert at exactly d = r while an
\* alert just beyond the radius, passing the other filters, is left out
C10_Witness ==
    /\ resp.op = "near"
    /\ \E a \in Range(resp.alerts) :
          DistanceKm(a, resp.q.lat) = OrDefault(resp.q.radius, 50)
    /\ \E a \in Docs(alerts) :
          /\ a \notin Range(resp.alerts)
          /\ Matches(a, [NearFilter(resp.q, resp.at[1], resp.at[2])
                            EXCEPT !.keys = @ \ {"location"}])

\* the number a facet reports; an empty facet reports no alert
FacetCount(c) == IF Given(c) THEN Val(c) ELSE 0

OddParam(q, name) == Given(q[name]) /\ (IsNaN(q, name) \/ Val(q[name]) <= 0)
\* the query with every such parameter left out
Defaulted(q) ==
    [q EXCEPT !.limit = IF OddParam(q, "limit") THEN None ELSE @,
              !.page = IF OddParam(q, "page") THEN None ELSE @,
              !.nonNumeric = {}]

\* C12: ListAlerts with a non-positive or non-numeric limit or page does not
\* fail and answers as the call with the defaults in their place does: the
\* same page of at most 20 alerts, a finite page count ceil(total / limit)
\* and the defaulted current page.
C12_OddPagingAsDefaults ==
    (resp.op = "list" /\ (OddParam(resp.q, "limit") \/ OddParam(resp.q, "page")))
    => /\ resp.status = "ok"
       /\ Len(resp.alerts) <= DefaultLimit
       /\ \E ord \in Orderings(Find(alerts, ListConditions(resp.q, resp.at)),
                               SortOf(resp.q)) :
             resp.alerts = ListPage(Defaulted(resp.q), ord)
       /\ resp.pagination.finite
       /\ resp.pagination.pages >= 0
       /\ resp.pagination =
             Pagination(Defaulted(resp.q),
                        CountDocuments(alerts, ListCountConditions(resp.q, resp.at)))

\* C13: a DeleteAlert by an elevated identity that reaches its removal takes
\* exactly that alert out of the store and leaves every other alert as it
\* was; a DeleteAlert or a GetAlert on an id that is not in the store starts
\* no handler work and answers NotFound with the store unchanged; every
\* alert in a List or Get-by-location result is an alert of the store, and
\* statistics count the alerts of the store only.
C13_DeleteRemovesExactly ==
    [][/\ \A p \in Procs :
             (req[p].op = "delete" /\ req'[p] = Idle)
             => /\ DOMAIN alerts' = DOMAIN alerts \ {req[p].id}
                /\ \A i \in DOMAIN alerts' : alerts'[i] = alerts[i]
                /\ resp'.op = "delete" /\ resp'.status = "ok"
       /\ \A p \in Procs :
             (req[p] = Idle /\ req'[p].op \in {"delete", "get"})
             => req'[p].id \in DOMAIN alerts
       /\ (resp = NoResp /\ resp'.op \in {"delete", "get"} /\ req' = req)
          => /\ resp'.status = "NotFound"
             /\ resp'.id \notin DOMAIN alerts
             /\ alerts' = alerts
       /\ (resp = NoResp /\ resp'.op \in {"list", "near"})
          => \A a \in Range(resp'.alerts) :
                a.id \in DOMAIN alerts' /\ alerts'[a.id] = a
       /\ (resp = NoResp /\ resp'.op = "stats")
          => /\ FacetCount(resp'.stats.totalAlerts) = Cardinality(DOMAIN alerts')
             /\ FacetCount(resp'.stats.activeAlerts) <= Cardinality(DOMAIN alerts')
             /\ FacetCount(resp'.stats.recentAlerts) <= Cardinality(DOMAIN alerts')
    ]_vars

\* an alert has been deleted while another is kept, and a GetAlert on the
\* deleted id has answered NotFound
C13_Witness ==
    /\ resp.op = "get" /\ resp.status = "NotFound"
    /\ resp.id < nextId
    /\ \E i \in DOMAIN alerts : i # resp.id

\* what an update decides of a stored alert (updatedAt is the store's stamp)
Content(a) == [f \in DOMAIN a \ {"updatedAt"} |-> a[f]]

\* updates carried out one after another, each from its read to its write
RECURSIVE SerialUpdates(_, _, _)
SerialUpdates(a, bodies, identity) ==
    IF bodies = <<>> THEN a
    ELSE SerialUpdates(ApplyUpdate(a, UpdateData(Head(bodies), identity, a), 0),
                       Tail(bodies), identity)

\* the patches of MovePatches written to a stored alert: each leaves its own
\* mark (a type, a status) that no other patch and no creation sets
Written(a) ==
    {b \in MovePatches : \A f \in DOMAIN b \ {"location"} : a[f] = b[f]}

\* the alert as creation stored it
Created(a) ==
    NewAlert(a.id, a.createdBy, CHOOSE b \in MoveBodies : TRUE, a.createdAt)

\* the orders in which a set of patches can be taken, each at least once
OrdersOf(B) ==
    {o \in [1..Cardinality(B) -> B] : \A b \in B : \E i \in DOMAIN o : o[i] = b}

\* C14: concurrent UpdateAlert calls on one id are linearizable: once none is
\* in flight, the stored alert is what the updates written to it give when
\* they are carried out one after another in some order.
C14_UpdatesLinearizable ==
    \A id \in DOMAIN alerts :
        InFlight("update", id) = 0
        => \E o \in OrdersOf(Written(alerts[id])) :
              Content(alerts[id])
                 = Content(SerialUpdates(Created(alerts[id]), o, "admin1"))

\* C15: a successful UpdateAlert whose patch holds a location leaves
\* location.radius at its value before the update when the patch names no
\* radius, and stores the radius the patch names when it names one.
C15_LocationPatchRadius ==
    [][\A p \in Procs :
          (/\ req[p].op = "update" /\ req'[p] = Idle
           /\ resp'.status = "ok" /\ Given(resp'.alert)
           /\ "location" \in DOMAIN req[p].body)
          => alerts'[req[p].id].location.radius
                = IF Given(req[p].body.location.radius)
                  THEN Val(req[p].body.location.radius)
                  ELSE alerts[req[p].id].location.radius
    ]_vars

\* C16: within one GetAlertStatistics call the instant of the activeAlerts
\* window test and the instant the 7-day recentAlerts cutoff is computed from
\* are the same, even when the clock advances during the call.
C16_OneCapturedNow ==
    (resp.op = "stats" /\ resp.status = "ok") => resp.at[1] = resp.at[2]

\* C17: every alert in the store has validFrom <= validUntil, after any
\* sequence of CreateAlert and UpdateAlert calls by an elevated identity,
\* patches of a single end of the window included.
C17_WindowOrdered ==
    \A a \in Docs(alerts) : a.validFrom <= a.validUntil

\* C18: every UpdateAlert that reports success returns the updated alert as
\* the store holds it; when a DeleteAlert has removed the alert between the
\* existence check and the write, the update does not report success.
C18_SuccessReturnsStoredAlert ==
    (resp.op = "update" /\ resp.status = "ok")
    => Given(resp.alert) /\ Val(resp.alert) \in DOMAIN alerts

\* C19: an id the store has assigned and holds no more is never held again:
\* no GetAlert save and no UpdateAlert write that read the alert before its
\* deletion puts it back.
C19_DeletionFinal ==
    [][\A id \in Ids :
          (id < nextId /\ id \notin DOMAIN alerts) => id \notin DOMAIN alerts'
    ]_vars

\* an UpdateAlert that read the alert before its deletion has written after
\* it, and the store does not hold the id
C19_Witness ==
    /\ resp.op = "update" /\ resp.status = "ok"
    /\ resp.id < nextId
    /\ resp.id \notin DOMAIN alerts
====
